---- MODULE Spec2Model ----
(***************************************************************************)
(* Vireon threat-intelligence pipeline: IOC extraction (iocExtractor),     *)
(* the localStorage-backed stores (dataStorage), the pipeline orchestrator *)
(* (threatIntelPipeline) and the campaign correlator                       *)
(* (ThreatCampaignDetector.detectCampaigns).                               *)
(*                                                                         *)
(* Representation.  Text is a sequence of whitespace-separated tokens; a   *)
(* token is either a plain word or a substring one of the extractor's      *)
(* regular expressions matches.  What the code computes per character      *)
(* (toLowerCase, length, includes, RegExp.test) is tabulated per token     *)
(* below.  Confidence is kept in tenths (0.7 is 7): every comparison the   *)
(* code makes between two confidences of the same (type, value) differs    *)
(* only in the keyword count, so the order is the same as for the floats.  *)
(***************************************************************************)
EXTENDS Integers, Sequences, FiniteSets, TLC

\* ---------------------------------------------------------------- bounds
\* MaxIOCs and MaxReports stand for the caps 10000 (dataStorage.ts:139) and
\* 1000 (dataStorage.ts:82), ContextRadius for the 50 characters of context
\* (in tokens), Now for Date.now() (in days).
MaxTextLen == 4
MaxFilterTextLen == 2
ContextRadius == 1
MaxIOCs == 2
MaxReports == 3
MaxRuns == 2
MaxStops == 1
MaxFaults == 1
MaxBatch == 2
MaxCorrReports == 3
MaxGenCalls == 2
MaxFetches == 2

\* ------------------------------------------------------------- utilities
Min(a, b) == IF a < b THEN a ELSE b
Max(a, b) == IF a > b THEN a ELSE b
Range(s) == {s[i] : i \in 1..Len(s)}
SeqsUpTo(S, n) == UNION {[1..k -> S] : k \in 0..n}

\* Body applied to the value of e, which is computed once however often
\* Body uses it (an operator argument is otherwise computed anew at each
\* use when TLC evaluates ENABLED)
Bind(e, Body(_)) == CHOOSE r \in {Body(x) : x \in {e}} : TRUE

\* Array.prototype.findIndex: first index satisfying P, 0 when none (-1 in JS)
FindIndex(seq, P(_)) ==
  Bind(seq, LAMBDA s :
    IF \E i \in 1..Len(s) : P(s[i])
    THEN CHOOSE i \in 1..Len(s) : P(s[i]) /\ \A j \in 1..(i-1) : ~P(s[j])
    ELSE 0)

\* ---------------------------------------------------- the token catalogue
PlainWords == {"the", "malicious", "Conti", "ransomware", "attack",
               "New", "phishing", "kit", "Bank", "leak"}
IPTokens ==
  {"45.129.96.147", "192.168.1.5", "0.0.0.0", "127.0.0.1", "10.1.2.3", "172.15.0.1",
   "172.16.0.1", "172.31.255.1", "172.32.0.1", "169.254.1.1", "224.0.0.1",
   "255.255.255.255"}
URLTokens == {"http://evil.tk/x", "http://news.com/a"}
DomainTokens ==
  {"evil.com", "EVIL.COM", "example.com", "sub.example.com", "google.com",
   "www.google.com", "mail.google.com", "microsoft.com", "srv.local",
   "portal.localgov.uk"}
HashTokens == {"d41d8cd98f00b204e9800998ecf8427e"}
IdentifierTokens == {"CVE-2024-1234", "GHSA-abcd-1234-efgh", "T1059"}
IndicatorTokens ==
  IPTokens \cup URLTokens \cup DomainTokens \cup HashTokens \cup IdentifierTokens
Tokens == PlainWords \cup IndicatorTokens

\* String.prototype.toLowerCase
toLowerCase(w) ==
  CASE w = "Conti" -> "conti"
    [] w = "New" -> "new"
    [] w = "Bank" -> "bank"
    [] w = "EVIL.COM" -> "evil.com"
    [] w = "APT" -> "apt"
    [] w = "Ransomware" -> "ransomware"
    [] w = "Phishing" -> "phishing"
    [] w = "Financial" -> "financial"
    [] w = "CVE-2024-1234" -> "cve-2024-1234"
    [] w = "GHSA-abcd-1234-efgh" -> "ghsa-abcd-1234-efgh"
    [] w = "T1059" -> "t1059"
    [] OTHER -> w

\* String.prototype.length
StrLen(w) ==
  CASE w \in {"the", "new", "kit", "New", "apt", "APT"} -> 3
    [] w \in {"bank", "Bank", "leak"} -> 4
    [] w \in {"conti", "Conti"} -> 5
    [] w = "attack" -> 6
    [] w \in {"evil.com", "EVIL.COM", "phishing", "Phishing"} -> 8
    [] w = "malicious" -> 9
    [] w \in {"ransomware", "Ransomware"} -> 10
    [] w \in {"T1059", "t1059"} -> 5
    [] w = "0.0.0.0" -> 7
    [] w = "10.1.2.3" -> 8
    [] w \in {"127.0.0.1", "224.0.0.1", "srv.local"} -> 9
    [] w \in {"172.15.0.1", "172.16.0.1", "172.32.0.1", "google.com"} -> 10
    [] w \in {"192.168.1.5", "169.254.1.1", "example.com"} -> 11
    [] w = "172.31.255.1" -> 12
    [] w \in {"45.129.96.147", "microsoft.com", "CVE-2024-1234", "cve-2024-1234"} -> 13
    [] w = "www.google.com" -> 14
    [] w \in {"255.255.255.255", "sub.example.com", "mail.google.com"} -> 15
    [] w = "http://evil.tk/x" -> 16
    [] w = "http://news.com/a" -> 17
    [] w = "portal.localgov.uk" -> 18
    [] w \in {"GHSA-abcd-1234-efgh", "ghsa-abcd-1234-efgh"} -> 19
    [] w = "d41d8cd98f00b204e9800998ecf8427e" -> 32
    [] OTHER -> 0

\* octets of the catalogue's dotted quads
Octets(w) ==
  CASE w = "45.129.96.147" -> <<45, 129, 96, 147>>
    [] w = "192.168.1.5" -> <<192, 168, 1, 5>>
    [] w = "0.0.0.0" -> <<0, 0, 0, 0>>
    [] w = "127.0.0.1" -> <<127, 0, 0, 1>>
    [] w = "10.1.2.3" -> <<10, 1, 2, 3>>
    [] w = "172.15.0.1" -> <<172, 15, 0, 1>>
    [] w = "172.16.0.1" -> <<172, 16, 0, 1>>
    [] w = "172.31.255.1" -> <<172, 31, 255, 1>>
    [] w = "172.32.0.1" -> <<172, 32, 0, 1>>
    [] w = "169.254.1.1" -> <<169, 254, 1, 1>>
    [] w = "224.0.0.1" -> <<224, 0, 0, 1>>
    [] w = "255.255.255.255" -> <<255, 255, 255, 255>>
    [] OTHER -> <<>>

\* ------------------------------------------------------------ iocExtractor
Types == {"ip", "url", "hash", "domain", "email"}

\* patterns: the catalogue tokens each regular expression matches
patterns ==
  [ipv4   |-> IPTokens,
   ipv6   |-> {},
   url    |-> URLTokens,
   domain |-> DomainTokens,
   md5    |-> HashTokens, sha1 |-> {}, sha256 |-> {}, sha512 |-> {},
   email  |-> {},
   cve    |-> {"CVE-2024-1234"}, ghsa |-> {"GHSA-abcd-1234-efgh"},
   mitre  |-> {"T1059"}]

threatKeywords ==
  {"malicious", "threat", "malware", "suspicious", "attack", "compromise",
   "phishing", "ransomware", "trojan", "backdoor", "c2", "command",
   "control", "botnet", "exploit", "vulnerability", "breach"}

\* the threat keywords a lowercased token contains as a substring
KeywordsIn(w) == IF w \in threatKeywords THEN {w} ELSE {}

isPrivateIP_Without172(ip) ==
  LET o == Octets(ip) IN
  /\ o # <<>>
  /\ \/ o = <<0, 0, 0, 0>>
     \/ o[1] = 127
     \/ o[1] = 10
     \/ o[1] = 192 /\ o[2] = 168
     \/ o[1] = 169 /\ o[2] = 254
     \/ o[1] = 224
     \/ o = <<255, 255, 255, 255>>

\* excludePatterns.ip tested on a dotted quad
isPrivateIP(ip) ==
  LET o == Octets(ip) IN
  /\ o # <<>>
  /\ \/ o = <<0, 0, 0, 0>>
     \/ o[1] = 127
     \/ o[1] = 10
     \/ o[1] = 172 /\ o[2] \in 16..31
     \/ o[1] = 192 /\ o[2] = 168
     \/ o[1] = 169 /\ o[2] = 254
     \/ o[1] = 224
     \/ o = <<255, 255, 255, 255>>

isSuspiciousURL(url) == toLowerCase(url) \in {"http://evil.tk/x"}

\* excludePatterns.domain tested on a domain candidate
ExcludedDomain(d) ==
  toLowerCase(d) \in {"localhost", "example.com", "example.org", "example.net",
                      "google.com", "www.google.com",
                      "microsoft.com", "www.microsoft.com"}
  \/ Octets(d) # <<>>

calculateConfidence_Unclamped(value, type, context) ==
  LET contextLower == [i \in 1..Len(context) |-> toLowerCase(context[i])]
      keywordMatches ==
        Cardinality(UNION {KeywordsIn(contextLower[i]) : i \in 1..Len(context)})
      base == 7 + keywordMatches
  IN CASE type = "ip" -> IF isPrivateIP(value) THEN base - 3 ELSE base
       [] type = "url" -> IF isSuspiciousURL(value) THEN base + 2 ELSE base
       [] type = "hash" -> base + 2
       [] OTHER -> base

calculateConfidence(value, type, context) ==
  Bind([i \in 1..Len(context) |-> toLowerCase(context[i])], LAMBDA contextLower :
    LET keywordMatches ==
          Cardinality(UNION {KeywordsIn(contextLower[i]) : i \in 1..Len(contextLower)})
        base == 7 + keywordMatches
        adjusted ==
          CASE type = "ip" -> IF isPrivateIP(value) THEN base - 3 ELSE base
            [] type = "url" -> IF isSuspiciousURL(value) THEN base + 2 ELSE base
            [] type = "hash" -> base + 2
            [] OTHER -> base
    IN Min(10, Max(1, adjusted)))

\* text.indexOf(match): position of the first occurrence
IndexOf(text, match) == FindIndex(text, LAMBDA t : t = match)

\* one candidate per match, every one with the context of the FIRST
\* occurrence of the matched string
extractPattern(text, pattern, type) ==
  Bind(SelectSeq(text, LAMBDA t : t \in pattern), LAMBDA matches :
    LET Candidate(match) ==
          Bind(IndexOf(text, match), LAMBDA at :
            Bind(SubSeq(text, Max(1, at - ContextRadius),
                              Min(Len(text), at + ContextRadius)), LAMBDA context :
              [type |-> type, value |-> match, context |-> context,
               confidence |-> calculateConfidence(match, type, context)]))
    IN [i \in 1..Len(matches) |-> Candidate(matches[i])])

\* String.prototype.includes / startsWith for the substrings the filter asks for
Includes(w, sub) ==
  CASE sub = "." -> w \in IPTokens \cup URLTokens \cup DomainTokens
    [] sub = ".local" -> w \in {"srv.local", "portal.localgov.uk"}
    [] sub = "@" -> FALSE
    [] sub = "http" -> w \in URLTokens
    [] OTHER -> FALSE

shouldIncludeIOC_KeepingLoopback(ioc) ==
  CASE ioc.type = "ip" -> ~isPrivateIP(ioc.value) \/ Octets(ioc.value)[1] = 127
    [] ioc.type = "domain" ->
         ~ExcludedDomain(ioc.value) /\ ~Includes(ioc.value, ".local")
         /\ Includes(ioc.value, ".")
    [] ioc.type = "url" -> Includes(ioc.value, "http") /\ StrLen(ioc.value) > 10
    [] ioc.type = "hash" -> StrLen(ioc.value) >= 32
    [] ioc.type = "email" -> Includes(ioc.value, "@") /\ Includes(ioc.value, ".")
    [] OTHER -> TRUE

shouldIncludeIOC(ioc) ==
  CASE ioc.type = "ip" -> ~isPrivateIP(ioc.value)
    [] ioc.type = "domain" ->
         ~ExcludedDomain(ioc.value) /\ ~Includes(ioc.value, ".local")
         /\ Includes(ioc.value, ".")
    [] ioc.type = "url" -> Includes(ioc.value, "http") /\ StrLen(ioc.value) > 10
    [] ioc.type = "hash" -> StrLen(ioc.value) >= 32
    [] ioc.type = "email" -> Includes(ioc.value, "@") /\ Includes(ioc.value, ".")
    [] OTHER -> TRUE

IOCKey(ioc) == <<ioc.type, toLowerCase(ioc.value)>>

\* Array.prototype.sort((a, b) => b.confidence - a.confidence): stable
RECURSIVE SortByConfidence(_)
SortByConfidence(seq) ==
  Bind(seq, LAMBDA s :
    IF s = <<>> THEN <<>>
    ELSE Bind(SortByConfidence(SubSeq(s, 1, Len(s) - 1)), LAMBDA rest :
           LET x == s[Len(s)]
               k == Cardinality({i \in 1..Len(rest) :
                                   rest[i].confidence >= x.confidence})
           IN SubSeq(rest, 1, k) \o <<x>> \o SubSeq(rest, k + 1, Len(rest))))

\* the forEach of filterAndDedupeIOCs: keeps the first candidate of each key
RECURSIVE DedupeFirstSeen(_, _, _)
DedupeFirstSeen(cands, seen, filtered) ==
  IF cands = <<>> THEN filtered
  ELSE Bind(<<Head(cands), Tail(cands), seen, filtered>>, LAMBDA at :
         LET ioc == at[1] IN
         IF IOCKey(ioc) \notin at[3] /\ shouldIncludeIOC(ioc)
         THEN DedupeFirstSeen(at[2], at[3] \cup {IOCKey(ioc)}, Append(at[4], ioc))
         ELSE DedupeFirstSeen(at[2], at[3], at[4]))

filterAndDedupeIOCs(cands) == SortByConfidence(DedupeFirstSeen(cands, {}, <<>>))

\* text.replace(patterns.url, '')
textWithoutUrls(text) == SelectSeq(text, LAMBDA t : t \notin patterns.url)

\* every candidate, in the order extractIOCs pushes them
Candidates(text) ==
  extractPattern(text, patterns.ipv4, "ip")
  \o extractPattern(text, patterns.ipv6, "ip")
  \o extractPattern(text, patterns.url, "url")
  \o extractPattern(textWithoutUrls(text), patterns.domain, "domain")
  \o extractPattern(text, patterns.md5, "hash")
  \o extractPattern(text, patterns.sha1, "hash")
  \o extractPattern(text, patterns.sha256, "hash")
  \o extractPattern(text, patterns.sha512, "hash")
  \o extractPattern(text, patterns.email, "email")
  \o extractPattern(text, patterns.cve, "hash")
  \o extractPattern(text, patterns.ghsa, "hash")
  \o extractPattern(text, patterns.mitre, "hash")

extractIOCs(text) == Bind(text, LAMBDA t : filterAndDedupeIOCs(Candidates(t)))

\* ------------------------------------------------------------ dataStorage
\* { ...a, ...b }: every field of b, and the fields only a has
Spread(a, b) ==
  Bind(<<a, b>>, LAMBDA ab :
    [f \in DOMAIN ab[1] \cup DOMAIN ab[2] |->
       IF f \in DOMAIN ab[2] THEN ab[2][f] ELSE ab[1][f]])

SameTitleAndSource(r, report) == r.title = report.title /\ r.source = report.source

IsDuplicateReport_ById(r, report) == r.id = report.id

\* the findIndex predicate of addReport
IsDuplicateReport(r, report) == r.title = report.title /\ r.source = report.source

\* addReport, on the stored collection; the collection it saves
addReport(stored, incoming) ==
  Bind(incoming, LAMBDA report :
    Bind(FindIndex(stored, LAMBDA r : IsDuplicateReport(r, report)), LAMBDA existingIndex :
      Bind(IF existingIndex > 0
           THEN [stored EXCEPT ![existingIndex] = Spread(stored[existingIndex], report)]
           ELSE <<report>> \o stored,
           LAMBDA merged :
             IF Len(merged) > MaxReports THEN SubSeq(merged, 1, MaxReports) ELSE merged)))

SameTypeAndValue(ioc, newIOC) == ioc.type = newIOC.type /\ ioc.value = newIOC.value

ReplacesStored_OrEqual(newIOC, storedIOC) == newIOC.confidence >= storedIOC.confidence

\* the test under which a duplicate overwrites the stored record
ReplacesStored(newIOC, storedIOC) == newIOC.confidence > storedIOC.confidence

\* the findIndex predicate of addIOCs
IsDuplicateIOC(ioc, newIOC) == ioc.type = newIOC.type /\ ioc.value = newIOC.value

\* the forEach of addIOCs over iocsWithSource
RECURSIVE MergeIOCs(_, _)
MergeIOCs(uniqueIOCs, iocsWithSource) ==
  IF iocsWithSource = <<>> THEN uniqueIOCs
  ELSE Bind(<<uniqueIOCs, Head(iocsWithSource), Tail(iocsWithSource)>>, LAMBDA at :
         LET newIOC == at[2]
             existingIndex == FindIndex(at[1], LAMBDA i : IsDuplicateIOC(i, newIOC))
             next ==
               IF existingIndex > 0
               THEN IF ReplacesStored(newIOC, at[1][existingIndex])
                    THEN [at[1] EXCEPT ![existingIndex] = newIOC]
                    ELSE at[1]
               ELSE Append(at[1], newIOC)
         IN MergeIOCs(next, at[3]))

addIOCs_KeepingOldest(stored, newIOCs, sourceReport) ==
  LET iocsWithSource ==
        [i \in 1..Len(newIOCs) |-> Spread(newIOCs[i], [sourceReport |-> sourceReport])]
      uniqueIOCs == MergeIOCs(stored, iocsWithSource)
  IN SubSeq(uniqueIOCs, 1, Min(Len(uniqueIOCs), MaxIOCs))

\* addIOCs, on the stored collection; the collection it saves.  The
\* timestamp the code stamps on each record is left out of the record.
addIOCs(stored, newIOCs, sourceReport) ==
  LET iocsWithSource ==
        [i \in 1..Len(newIOCs) |-> Spread(newIOCs[i], [sourceReport |-> sourceReport])]
  IN Bind(MergeIOCs(stored, iocsWithSource), LAMBDA uniqueIOCs :
       IF Len(uniqueIOCs) > MaxIOCs
       THEN SubSeq(SortByConfidence(uniqueIOCs), 1, MaxIOCs)
       ELSE uniqueIOCs)

\* ------------------------------------------------------------------ state
VARIABLES
  isProcessing,      \* ThreatIntelligencePipeline.isProcessing
  processingStatus,  \* ThreatIntelligencePipeline.processingStatus
  runs,              \* the refreshThreatIntelligence calls and where each is suspended
  stops,             \* number of forceStop calls made
  nextId,            \* source of fresh report ids
  aiReady,           \* aiAnalyzer.isInitialized
  faults,            \* number of extraction and summary calls that threw
  reports,           \* localStorage[vireon_threat_reports]
  iocs,              \* localStorage[vireon_extracted_iocs]
  lastCall,          \* the store operation performed last, with its argument
  exText,            \* the text handed to extractIOCs
  exOut,             \* what extractIOCs returned for it
  corr,              \* the detectCampaigns pass
  scored,            \* a calculateConfidence call on the stored reports
  ollama,            \* OllamaService.isConnected and config
  gens,              \* the OllamaService.generateSummary calls
  proxyIndex,        \* FeedParser.proxyIndex
  fetches            \* the FeedParser.fetchFeed calls

vars == <<isProcessing, processingStatus, runs, stops, nextId, aiReady, faults, reports, iocs,
          lastCall, exText, exOut, corr, scored, ollama, gens, proxyIndex, fetches>>

pipeVars == <<isProcessing, processingStatus, runs, stops, nextId, aiReady, faults>>
storeVars == <<reports, iocs, lastCall>>
exVars == <<exText, exOut>>
feedVars == <<proxyIndex, fetches>>
callVars == <<scored, ollama, gens, feedVars>>

NoStatus ==
  [isProcessing |-> FALSE, currentStep |-> "", progress |-> 0, totalSteps |-> 0,
   errors |-> <<>>]

NoCall == [op |-> "none"]

PipeIdle ==
  /\ isProcessing = FALSE
  /\ processingStatus = NoStatus
  /\ runs = <<>>
  /\ stops = 0
  /\ nextId = 1
  /\ faults = 0
  /\ aiReady \in BOOLEAN

StoreEmpty == reports = <<>> /\ iocs = <<>> /\ lastCall = NoCall

ExIdle == exText = <<>> /\ exOut = [done |-> FALSE]

CorrIdle == corr = [pc |-> "idle"]

\* the Ollama configuration as constructed: no model known to be installed
OllamaConfig ==
  [models |-> <<[name |-> "llama3", available |-> FALSE],
                [name |-> "mistral", available |-> FALSE]>>,
   defaultModel |-> "llama3"]

CallsIdle ==
  /\ scored = [done |-> FALSE]
  /\ ollama = [isConnected |-> FALSE, config |-> OllamaConfig]
  /\ gens = <<>>
  /\ proxyIndex = 0
  /\ fetches = <<>>

\* ------------------------------------------------- extraction on its own
ExtractAlphabet ==
  {"the", "malicious", "attack", "evil.com", "EVIL.COM", "45.129.96.147",
   "192.168.1.5", "http://evil.tk/x", "http://news.com/a",
   "d41d8cd98f00b204e9800998ecf8427e"}

InitExtract ==
  /\ PipeIdle /\ aiReady = FALSE
  /\ StoreEmpty
  /\ CorrIdle /\ CallsIdle
  /\ exText \in SeqsUpTo(ExtractAlphabet, MaxTextLen)
  /\ exOut = [done |-> FALSE]

Extract ==
  /\ ~exOut.done
  /\ exOut' = [done |-> TRUE, iocs |-> extractIOCs(exText)]
  /\ UNCHANGED <<exText, pipeVars, storeVars, corr, callVars>>

NextExtract == Extract

SpecExtract == InitExtract /\ [][NextExtract]_vars

\* C4: within one extractIOCs call the record returned for a (type,
\* lowercased value) key carries the highest confidence among the accepted
\* candidates of that key.
C4_HighestConfidenceKept ==
  exOut.done =>
    \A i \in 1..Len(exOut.iocs) :
      \A c \in Range(Candidates(exText)) :
        (shouldIncludeIOC(c) /\ IOCKey(c) = IOCKey(exOut.iocs[i]))
          => c.confidence <= exOut.iocs[i].confidence

\* the distinct threat keywords found in a context
KeywordsFound(context) ==
  {k \in threatKeywords :
     \E i \in 1..Len(context) : k \in KeywordsIn(toLowerCase(context[i]))}

\* the type adjustment, in tenths
TypeAdjustment(c) ==
  CASE c.type = "ip" -> IF isPrivateIP(c.value) THEN 0 - 3 ELSE 0
    [] c.type = "url" -> IF isSuspiciousURL(c.value) THEN 2 ELSE 0
    [] c.type = "hash" -> 2
    [] OTHER -> 0

Unclamped(c) == 7 + Cardinality(KeywordsFound(c.context)) + TypeAdjustment(c)

\* C25: every candidate's confidence is 0.7 plus 0.1 per distinct threat
\* keyword in its context plus the type adjustment, clamped to [0.1, 1.0],
\* and no indicator returned carries a confidence outside [0.1, 1.0].
C25_ConfidenceFormulaAndClamp ==
  exOut.done =>
    /\ \A c \in Range(Candidates(exText)) :
         c.confidence = IF Unclamped(c) > 10 THEN 10
                        ELSE IF Unclamped(c) < 1 THEN 1 ELSE Unclamped(c)
    /\ \A i \in 1..Len(exOut.iocs) :
         1 <= exOut.iocs[i].confidence /\ exOut.iocs[i].confidence <= 10

\* a hash between two threat keywords: 0.7 + 0.2 + 0.2 is clamped to 1.0,
\* next to a private address that carries the penalty as a candidate
C25_Witness ==
  /\ exOut.done
  /\ \E i \in 1..Len(exOut.iocs) :
       /\ exOut.iocs[i].type = "hash"
       /\ Unclamped(exOut.iocs[i]) = 11
       /\ exOut.iocs[i].confidence = 10
  /\ \E c \in Range(Candidates(exText)) : c.type = "ip" /\ c.confidence < 7

\* --------------------------------------------- the rejection filter on its own
\* texts over every address, domain, hash and identifier of the catalogue
FilterAlphabet == IPTokens \cup DomainTokens \cup HashTokens \cup IdentifierTokens

InitFilter ==
  /\ PipeIdle /\ aiReady = FALSE
  /\ StoreEmpty
  /\ CorrIdle /\ CallsIdle
  /\ exText \in SeqsUpTo(FilterAlphabet, MaxFilterTextLen)
  /\ exOut = [done |-> FALSE]

NextFilter == Extract

SpecFilter == InitFilter /\ [][NextFilter]_vars

\* the ranges 0.0.0.0, 127.*, 10.*, 172.16-31.*, 192.168.*, 169.254.*, 224.*
\* and 255.255.255.255
InListedRange(value) ==
  LET o == Octets(value) IN
  /\ o # <<>>
  /\ \/ o = <<0, 0, 0, 0>> \/ o = <<255, 255, 255, 255>>
     \/ o[1] \in {127, 10, 224}
     \/ o[1] = 172 /\ 16 <= o[2] /\ o[2] <= 31
     \/ o[1] = 192 /\ o[2] = 168
     \/ o[1] = 169 /\ o[2] = 254

AuxiliaryIdentifiers == patterns.cve \cup patterns.ghsa \cup patterns.mitre

\* C23: an auxiliary identifier (CVE number, advisory ID, technique ID)
\* matched in the text is returned by extractIOCs as an indicator of type
\* hash.
C23_IdentifiersReturnedAsHash ==
  exOut.done =>
    \A t \in Range(exText) \cap AuxiliaryIdentifiers :
      \E i \in 1..Len(exOut.iocs) :
        exOut.iocs[i].type = "hash" /\ exOut.iocs[i].value = t

\* String.prototype.endsWith('.local') over the catalogue
EndsInLocal(w) == toLowerCase(w) \in {"srv.local"}

\* the excluded list: localhost, example.com/org/net, a bare dotted quad,
\* google.com and microsoft.com (with or without www.)
OnExcludedList(w) ==
  \/ toLowerCase(w) \in {"localhost", "example.com", "example.org", "example.net",
                          "google.com", "www.google.com",
                          "microsoft.com", "www.microsoft.com"}
  \/ Octets(w) # <<>>

DomainCandidates == {c \in Range(Candidates(exText)) : c.type = "domain"}

\* C24: a domain candidate is rejected if and only if it is on the
\* excluded list, lacks a dot or ends in .local; every other domain
\* candidate is kept.
C24_DomainRejectedIffListed ==
  exOut.done =>
    \A c \in DomainCandidates :
      (\E i \in 1..Len(exOut.iocs) : IOCKey(exOut.iocs[i]) = IOCKey(c))
        <=> ~(OnExcludedList(c.value) \/ ~Includes(c.value, ".")
              \/ EndsInLocal(c.value))

\* C30: every indicator extractIOCs returns has confidence at least 0.7:
\* every candidate that carries the private-address penalty is removed by
\* the rejection filter.
C30_ReturnedConfidenceAtLeastBase ==
  exOut.done =>
    /\ \A i \in 1..Len(exOut.iocs) : exOut.iocs[i].confidence >= 7
    /\ \A c \in Range(Candidates(exText)) :
         c.confidence < 7 =>
           \A i \in 1..Len(exOut.iocs) : IOCKey(exOut.iocs[i]) # IOCKey(c)

\* a loopback address was a candidate at 0.4 and a public address of the
\* same text is returned
C30_Witness ==
  /\ exOut.done
  /\ \E c \in Range(Candidates(exText)) :
       c.value = "127.0.0.1" /\ c.confidence = 4
  /\ \E i \in 1..Len(exOut.iocs) : exOut.iocs[i].type = "ip"

\* ------------------------------------------- the Indicator Store on its own
IOCPool ==
  {[type |-> "domain", value |-> v, context |-> <<v>>, confidence |-> c] :
     v \in {"evil.com", "EVIL.COM"}, c \in {7, 8}}
  \cup {[type |-> "ip", value |-> "45.129.96.147",
         context |-> <<"45.129.96.147">>, confidence |-> 8],
        [type |-> "url", value |-> "http://evil.tk/x",
         context |-> <<"http://evil.tk/x">>, confidence |-> 7]}

\* lists extractIOCs can return: one record per key, highest confidence first
ExtractionResults ==
  {s \in SeqsUpTo(IOCPool, 2) :
     /\ \A i, j \in 1..Len(s) : i < j => IOCKey(s[i]) # IOCKey(s[j])
     /\ \A i, j \in 1..Len(s) : i < j => s[i].confidence >= s[j].confidence}

InitIocStore == PipeIdle /\ aiReady = FALSE /\ StoreEmpty /\ ExIdle /\ CorrIdle /\ CallsIdle

AddIOCsCall ==
  \E newIOCs \in ExtractionResults, sourceReport \in 1..2 :
    /\ iocs' = addIOCs(iocs, newIOCs, sourceReport)
    /\ lastCall' = [op |-> "addIOCs", newIOCs |-> newIOCs, sourceReport |-> sourceReport]
    /\ UNCHANGED <<reports, pipeVars, exVars, callVars, corr>>

NextIocStore == AddIOCsCall

SpecIocStore == InitIocStore /\ [][NextIocStore]_vars

\* C3: across an addIOCs call a record of the same (type, value) that is
\* still stored is either the very same record or one of strictly higher
\* confidence; its confidence never decreases.
C3_ConfidenceNeverDowngraded ==
  [][\A i \in 1..Len(iocs) : \A j \in 1..Len(iocs') :
       SameTypeAndValue(iocs[i], iocs'[j]) =>
         \/ iocs'[j] = iocs[i]
         \/ iocs'[j].confidence > iocs[i].confidence]_vars

\* a lower-confidence duplicate was added and the stored record outranks it
C3_Witness ==
  /\ lastCall.op = "addIOCs"
  /\ \E n \in 1..Len(lastCall.newIOCs) : \E j \in 1..Len(iocs) :
       /\ SameTypeAndValue(iocs[j], lastCall.newIOCs[n])
       /\ lastCall.newIOCs[n].confidence < iocs[j].confidence

\* C6: the Indicator Store never holds two records with the same
\* (type, lowercased value) key.
C6_OnePerNormalizedKey ==
  \A i, j \in 1..Len(iocs) : i # j => IOCKey(iocs[i]) # IOCKey(iocs[j])

NoIndicators == [ips |-> <<>>, urls |-> <<>>, hashes |-> <<>>, domains |-> <<>>,
                 emails |-> <<>>]

ReportPool ==
  {[id |-> id, title |-> t, description |-> <<>>, content |-> <<>>,
    source |-> src, timestamp |-> id, severity |-> "medium", iocs |-> NoIndicators,
    aiSummary |-> "null", processed |-> FALSE, tags |-> <<>>] :
     id \in 1..2, t \in {<<"New", "phishing", "kit">>, <<"Bank", "leak">>},
     src \in {"CISA", "Krebs"}}

InitReportStore == PipeIdle /\ aiReady = FALSE /\ StoreEmpty /\ ExIdle /\ CorrIdle /\ CallsIdle

AddReportCall ==
  \E report \in ReportPool :
    /\ reports' = addReport(reports, report)
    /\ lastCall' = [op |-> "addReport", report |-> report]
    /\ UNCHANGED <<iocs, pipeVars, exVars, callVars, corr>>

NextReportStore == AddReportCall

SpecReportStore == InitReportStore /\ [][NextReportStore]_vars

HasTitleAndSource(stored, report) ==
  \E i \in 1..Len(stored) : SameTitleAndSource(stored[i], report)

\* C7: no two stored reports share (title, source), and an addReport whose
\* (title, source) is already stored leaves the number of reports as it was.
C7_UniqueTitleSource ==
  /\ [](\A i, j \in 1..Len(reports) :
          i # j => ~SameTitleAndSource(reports[i], reports[j]))
  /\ [][(lastCall'.op = "addReport" /\ HasTitleAndSource(reports, lastCall'.report))
          => Len(reports') = Len(reports)]_vars

\* the last addReport updated a record that is not at the head
C7_Witness ==
  /\ lastCall.op = "addReport"
  /\ \E i \in 2..Len(reports) : reports[i] = lastCall.report

\* the stored reports an addReport call removed from the collection
EvictedReports ==
  {reports[i] : i \in {n \in 1..Len(reports) : ~HasTitleAndSource(reports', reports[n])}}

\* C21: after every addReport call the Report store holds at most the
\* capacity, and when the cap evicts, no evicted report has a later
\* timestamp than a report that is kept.
C21_CapEvictsOldest ==
  [][lastCall'.op = "addReport" =>
       /\ Len(reports') <= MaxReports
       /\ \A e \in EvictedReports : \A j \in 1..Len(reports') :
            e.timestamp <= reports'[j].timestamp]_vars

\* C29: an addReport that matches a stored record by (title, source)
\* updates in place: the length and the order of the collection are
\* unchanged, every other report is untouched, and the matched record keeps
\* the id it was stored under.
C29_UpdateInPlaceKeepsId ==
  [][(lastCall'.op = "addReport" /\ HasTitleAndSource(reports, lastCall'.report))
       => LET existingIndex ==
                FindIndex(reports, LAMBDA r : SameTitleAndSource(r, lastCall'.report))
          IN /\ Len(reports') = Len(reports)
             /\ \A j \in 1..Len(reports) :
                  j # existingIndex => reports'[j] = reports[j]
             /\ SameTitleAndSource(reports'[existingIndex], reports[existingIndex])
             /\ reports'[existingIndex].id = reports[existingIndex].id]_vars

\* ------------------------------------------------------------- aiAnalyzer
\* analyzeThreatContent: severity from the keyword lists, on the lowercased
\* title and content (no catalogue token contains a listed keyword as a
\* proper substring)
AnalyzeSeverity(text) ==
  Bind(text, LAMBDA t :
    Bind({toLowerCase(t[i]) : i \in 1..Len(t)}, LAMBDA lower :
      IF lower \cap {"zero-day", "nation-state", "apt"} # {} THEN "critical"
      ELSE IF lower \cap {"ransomware", "malware", "exploit", "backdoor"} # {} THEN "high"
      ELSE IF lower \cap {"phishing", "suspicious", "trojan", "botnet"} # {} THEN "medium"
      ELSE "low"))

\* ---------------------------------------------------- threatIntelPipeline
\* what the feed parser can deliver; fetchAllFeeds sorts newest first
FeedItems ==
  {[title |-> <<"New", "phishing", "kit">>, description |-> <<>>,
    content |-> <<"malicious", "evil.com">>, source |-> "CISA", pubDate |-> 1],
   [title |-> <<"Bank", "leak">>, description |-> <<>>,
    content |-> <<"EVIL.COM", "the", "45.129.96.147", "http://evil.tk/x">>,
    source |-> "Krebs", pubDate |-> 2]}

FeedBatches ==
  {b \in SeqsUpTo(FeedItems, MaxBatch) :
     \A i, j \in 1..Len(b) : i < j => b[i].pubDate > b[j].pubDate}

\* the tags generateTags derives, in the order of its keyword table
tagOrder == <<"Ransomware", "Phishing", "Financial">>

TagFires(tag, text) ==
  LET lower == {toLowerCase(text[i]) : i \in 1..Len(text)} IN
  CASE tag = "Ransomware" -> "ransomware" \in lower
    [] tag = "Phishing" -> "phishing" \in lower
    [] tag = "Financial" -> "bank" \in lower
    [] OTHER -> FALSE

generateTags(title, description) ==
  SelectSeq(tagOrder, LAMBDA tag : TagFires(tag, title \o description))

\* processFeedItems: one fresh report per item of feedItems.slice(0, maxItems)
processFeedItems(feedItems, maxItems, firstId) ==
  LET itemsToProcess == SubSeq(feedItems, 1, Min(Len(feedItems), maxItems)) IN
  [i \in 1..Len(itemsToProcess) |->
     [id |-> firstId + i - 1,
      title |-> itemsToProcess[i].title,
      description |-> itemsToProcess[i].description,
      content |-> itemsToProcess[i].content,
      source |-> itemsToProcess[i].source,
      timestamp |-> itemsToProcess[i].pubDate,
      severity |-> "medium",
      iocs |-> NoIndicators,
      aiSummary |-> "null",
      processed |-> FALSE,
      tags |-> generateTags(itemsToProcess[i].title, itemsToProcess[i].description)]]

ValuesOfType(extracted, type) ==
  LET ofType == SelectSeq(extracted, LAMBDA ioc : ioc.type = type) IN
  [i \in 1..Len(ofType) |-> ofType[i].value]

organizeIOCs(extracted) ==
  [ips |-> ValuesOfType(extracted, "ip"),
   urls |-> ValuesOfType(extracted, "url"),
   hashes |-> ValuesOfType(extracted, "hash"),
   domains |-> ValuesOfType(extracted, "domain"),
   emails |-> ValuesOfType(extracted, "email")]

ReportText(report) == report.title \o report.description \o report.content

OnExtractionError_Counted(st, i) ==
  [st EXCEPT !.errors = Append(@, [kind |-> "IOC extraction failed for",
                                   title |-> st.newReports[i].title]),
             !.processedCount = @ + 1]

\* the catch block of the extraction loop, for report i of the batch
OnExtractionError(st, i) ==
  [st EXCEPT !.errors = Append(@, [kind |-> "IOC extraction failed for",
                                   title |-> st.newReports[i].title])]

\* extractIOCs on the text of each report a feed item can become, computed
\* once (the extraction is a pure function of the text)
ExtractedFromFeed ==
  [text \in {ReportText(item) : item \in FeedItems} |-> extractIOCs(text)]

\* step 3: the extraction loop over newReports; st carries the batch, the
\* Indicator Store, the count of reports extracted and the errors; failing
\* holds the reports for which extractIOCs throws
RECURSIVE ExtractAll(_, _, _)
ExtractAll(state, i, failing) ==
  Bind(state, LAMBDA st :
    IF i > Len(st.newReports) THEN st
    ELSE IF i \in failing THEN ExtractAll(OnExtractionError(st, i), i + 1, failing)
    ELSE LET report == st.newReports[i] IN
         Bind(ExtractedFromFeed[ReportText(report)], LAMBDA extracted :
           ExtractAll(
             [st EXCEPT !.newReports[i].iocs = organizeIOCs(extracted),
                        !.iocs = addIOCs(st.iocs, extracted, report.id),
                        !.processedCount = @ + 1],
             i + 1, failing)))

\* step 5: newReports.forEach(report => dataStorage.addReport(report))
RECURSIVE SaveAll(_, _)
SaveAll(stored, newReports) ==
  Bind(newReports, LAMBDA rest :
    IF rest = <<>> THEN stored
    ELSE Bind(addReport(stored, Head(rest)), LAMBDA saved : SaveAll(saved, Tail(rest))))

\* updateStatus: the update spread over the current status (lastUpdate, a
\* wall-clock stamp, is left out)
updateStatus(status, update) == Spread(status, update)

InFlight == {"fetch", "process", "ai"}

AlreadyProcessing ==
  "Pipeline is already processing. Please wait for current operation to complete."

\* from tells a call made by a status subscriber, inside its callback, from
\* any other call
Call(pc) ==
  [pc |-> pc, maxItems |-> 0, newReports |-> <<>>, errors |-> <<>>,
   processedCount |-> 0, at |-> 0, result |-> "none", from |-> "caller"]

RejectCall_InsideTry ==
  /\ runs' = Append(runs, Spread(Call("rejected"), [result |-> AlreadyProcessing]))
  /\ isProcessing' = FALSE
  /\ processingStatus' =
       updateStatus(processingStatus,
         [isProcessing |-> FALSE, currentStep |-> "Error",
          errors |-> <<[kind |-> "Pipeline error"]>>])
  /\ UNCHANGED <<nextId, aiReady, reports, iocs>>

\* refreshThreatIntelligence while isProcessing: the throw of line 91
RejectCall ==
  /\ runs' = Append(runs, Spread(Call("rejected"), [result |-> AlreadyProcessing]))
  /\ UNCHANGED <<isProcessing, processingStatus, nextId, aiReady, reports, iocs>>

\* refreshThreatIntelligence up to its first await (the feed fetch)
AcceptCall(maxItems) ==
  /\ isProcessing' = TRUE
  /\ processingStatus' =
       updateStatus(
         updateStatus(processingStatus,
           [isProcessing |-> TRUE, currentStep |-> "Initializing", progress |-> 0,
            totalSteps |-> 5, errors |-> <<>>]),
         [currentStep |-> "Fetching threat intelligence feeds", progress |-> 1])
  /\ runs' = Append(runs, Spread(Call("fetch"), [maxItems |-> maxItems]))
  /\ UNCHANGED <<nextId, aiReady, reports, iocs>>

\* options.maxItems || 50 of the callers
MaxItemsOptions == {1, 50}

Refresh ==
  /\ Len(runs) < MaxRuns
  /\ \E maxItems \in MaxItemsOptions :
       IF isProcessing THEN RejectCall ELSE AcceptCall(maxItems)
  /\ UNCHANGED <<stops, faults, lastCall, exVars, callVars, corr>>

FetchSettles_SavingEarly(k) ==
  /\ runs[k].pc = "fetch"
  /\ \E feedItems \in FeedBatches :
       LET newReports == processFeedItems(feedItems, runs[k].maxItems, nextId) IN
       /\ runs' = [runs EXCEPT ![k].pc = "process", ![k].newReports = newReports,
                               ![k].maxItems = 0]
       /\ nextId' = nextId + Len(newReports)
       /\ reports' = SaveAll(reports, newReports)
  /\ processingStatus' =
       updateStatus(processingStatus,
         [currentStep |-> "Processing feed items", progress |-> 2])
  /\ UNCHANGED <<isProcessing, stops, aiReady, faults, iocs, lastCall, exVars,
                 callVars, corr>>

\* the feed fetch resolves: step 2 up to the await of processFeedItems
\* (options is not read again, so the run's maxItems is dropped)
FetchSettles(k) ==
  /\ runs[k].pc = "fetch"
  /\ \E feedItems \in FeedBatches :
       LET newReports == processFeedItems(feedItems, runs[k].maxItems, nextId) IN
       /\ runs' = [runs EXCEPT ![k].pc = "process", ![k].newReports = newReports,
                               ![k].maxItems = 0]
       /\ nextId' = nextId + Len(newReports)
  /\ processingStatus' =
       updateStatus(processingStatus,
         [currentStep |-> "Processing feed items", progress |-> 2])
  /\ UNCHANGED <<isProcessing, stops, aiReady, faults, reports, iocs, lastCall, exVars,
                 callVars, corr>>

NotifyAndReturn_WithoutFinally(k, notified, result) ==
  LET finished == [runs EXCEPT ![k] = Spread(Call("done"), [result |-> result])] IN
  /\ isProcessing' = isProcessing
  /\ \E reenters \in BOOLEAN :
       IF ~reenters
       THEN /\ runs' = finished
            /\ processingStatus' = notified
       ELSE /\ Len(runs) < MaxRuns
            /\ IF isProcessing
               THEN /\ runs' = Append(finished,
                                      Spread(Call("rejected"),
                                             [result |-> AlreadyProcessing,
                                              from |-> "status callback"]))
                    /\ processingStatus' = notified
               ELSE /\ \E maxItems \in MaxItemsOptions :
                         runs' = Append(finished,
                                        Spread(Call("fetch"),
                                               [maxItems |-> maxItems,
                                                from |-> "status callback"]))
                    /\ processingStatus' =
                         updateStatus(
                           updateStatus(notified,
                             [isProcessing |-> TRUE, currentStep |-> "Initializing",
                              progress |-> 0, totalSteps |-> 5, errors |-> <<>>]),
                           [currentStep |-> "Fetching threat intelligence feeds",
                            progress |-> 1])

\* the last updateStatus of run k (step 'Complete' or 'Error'), the return
\* and the finally block.  updateStatus calls the subscribers before it
\* returns; a subscriber may call refreshThreatIntelligence from its
\* callback, and that call runs up to its throw or its first await with
\* the flag as run k has left it so far.
NotifyAndReturn(k, notified, result) ==
  LET finished == [runs EXCEPT ![k] = Spread(Call("done"), [result |-> result])] IN
  /\ isProcessing' = FALSE
  /\ \E reenters \in BOOLEAN :
       IF ~reenters
       THEN /\ runs' = finished
            /\ processingStatus' = notified
       ELSE /\ Len(runs) < MaxRuns
            /\ IF isProcessing
               THEN /\ runs' = Append(finished,
                                      Spread(Call("rejected"),
                                             [result |-> AlreadyProcessing,
                                              from |-> "status callback"]))
                    /\ processingStatus' = notified
               ELSE /\ \E maxItems \in MaxItemsOptions :
                         runs' = Append(finished,
                                        Spread(Call("fetch"),
                                               [maxItems |-> maxItems,
                                                from |-> "status callback"]))
                    /\ processingStatus' =
                         updateStatus(
                           updateStatus(notified,
                             [isProcessing |-> TRUE, currentStep |-> "Initializing",
                              progress |-> 0, totalSteps |-> 5, errors |-> <<>>]),
                           [currentStep |-> "Fetching threat intelligence feeds",
                            progress |-> 1])

\* the end of a run that reaches step 5: save, report Complete, return, and
\* the finally block
Complete(k, status, newReports, errors, processedCount, store) ==
  /\ reports' = SaveAll(reports, newReports)
  /\ iocs' = store
  /\ NotifyAndReturn(k,
       updateStatus(
         updateStatus(status,
           [currentStep |-> "Saving processed reports", progress |-> 5]),
         [isProcessing |-> FALSE, currentStep |-> "Complete", progress |-> 5,
          errors |-> errors]),
       [success |-> TRUE, processed |-> processedCount, errors |-> errors])

\* processFeedItems has resolved: step 3 (extraction of the whole batch),
\* the start of step 4 and, when no summary is awaited, step 5
ProcessSettles(k) ==
  /\ runs[k].pc = "process"
  /\ \E failing \in SUBSET (1..Len(runs[k].newReports)) :
     /\ Cardinality(failing) <= MaxFaults - faults
     /\ faults' = faults + Cardinality(failing)
     /\ \E st \in {ExtractAll([newReports |-> runs[k].newReports, iocs |-> iocs,
                                 processedCount |-> runs[k].processedCount,
                                 errors |-> runs[k].errors], 1, failing)} :
        LET status3 == updateStatus(processingStatus,
                         [currentStep |-> "Extracting indicators of compromise",
                          progress |-> 3])
            status4 == updateStatus(status3,
                         [currentStep |-> "Generating AI threat summaries",
                          progress |-> 4])
            unprocessed == [i \in 1..Len(st.newReports) |->
                              [st.newReports[i] EXCEPT !.processed = FALSE,
                                                       !.aiSummary = "null"]]
        IN IF aiReady /\ st.newReports # <<>>
           THEN /\ runs' = [runs EXCEPT ![k].pc = "ai", ![k].at = 1,
                                        ![k].newReports = st.newReports,
                                        ![k].errors = st.errors,
                                        ![k].processedCount = st.processedCount]
                /\ iocs' = st.iocs
                /\ processingStatus' = status4
                /\ UNCHANGED <<isProcessing, reports>>
           ELSE Complete(k, status4, IF aiReady THEN st.newReports ELSE unprocessed,
                         st.errors, st.processedCount, st.iocs)
  /\ UNCHANGED <<stops, nextId, aiReady, lastCall, exVars, callVars, corr>>

\* how the awaited generateThreatSummary can end
SummaryOutcomes == {"summary", "throws"}

\* the body of the step 4 loop for one report, after its await
Summarised(report, outcome) ==
  IF outcome = "summary"
  THEN [report EXCEPT !.aiSummary = "summary",
                      !.severity = AnalyzeSeverity(report.title \o report.content),
                      !.processed = TRUE]
  ELSE [report EXCEPT !.processed = FALSE]

\* generateThreatSummary settles for the report the run is waiting on
SummarySettles(k) ==
  /\ runs[k].pc = "ai"
  /\ \E outcome \in SummaryOutcomes :
     /\ outcome = "throws" => faults < MaxFaults
     /\ faults' = IF outcome = "throws" THEN faults + 1 ELSE faults
     /\ LET i == runs[k].at
            report == runs[k].newReports[i]
            newReports == [runs[k].newReports EXCEPT ![i] = Summarised(report, outcome)]
            errors == IF outcome = "summary" THEN runs[k].errors
                      ELSE Append(runs[k].errors,
                                  [kind |-> "AI summary failed for", title |-> report.title])
        IN IF i < Len(newReports)
           THEN /\ runs' = [runs EXCEPT ![k].newReports = newReports, ![k].at = i + 1,
                                        ![k].errors = errors]
                /\ UNCHANGED <<isProcessing, processingStatus, reports, iocs>>
           ELSE Complete(k, processingStatus, newReports, errors,
                         runs[k].processedCount, iocs)
  /\ UNCHANGED <<stops, nextId, aiReady, lastCall, exVars, callVars, corr>>

\* the awaited fetch rejects: the catch block and the finally block
FetchFails(k) ==
  /\ runs[k].pc = "fetch"
  /\ LET errors == Append(runs[k].errors, [kind |-> "Pipeline error"]) IN
     NotifyAndReturn(k,
       updateStatus(processingStatus,
         [isProcessing |-> FALSE, currentStep |-> "Error", errors |-> errors]),
       [success |-> FALSE, processed |-> runs[k].processedCount, errors |-> errors])
  /\ UNCHANGED <<stops, nextId, aiReady, faults, reports, iocs, lastCall, exVars,
                 callVars, corr>>

forceStop ==
  /\ stops < MaxStops
  /\ stops' = stops + 1
  /\ isProcessing' = FALSE
  /\ processingStatus' =
       updateStatus(processingStatus,
         [isProcessing |-> FALSE, currentStep |-> "Stopped",
          errors |-> <<"Processing was manually stopped">>])
  /\ UNCHANGED <<runs, nextId, aiReady, faults, reports, iocs, lastCall, exVars,
                 callVars, corr>>

\* initializeModels completes
ModelsLoaded ==
  /\ ~aiReady
  /\ aiReady' = TRUE
  /\ UNCHANGED <<isProcessing, processingStatus, runs, stops, nextId, faults, reports,
                 iocs, lastCall, exVars, callVars, corr>>

\* the state the constructor leaves: the stored collections are empty, so
\* initializePipeline has started performInitialDataLoad, whose
\* refreshThreatIntelligence({maxItems: 20}) is suspended at the feed fetch
Init ==
  /\ isProcessing = TRUE
  /\ processingStatus =
       [isProcessing |-> TRUE, currentStep |-> "Fetching threat intelligence feeds",
        progress |-> 1, totalSteps |-> 5, errors |-> <<>>]
  /\ runs = <<Spread(Call("fetch"), [maxItems |-> 20])>>
  /\ stops = 0
  /\ nextId = 1
  /\ faults = 0
  /\ aiReady = FALSE
  /\ StoreEmpty /\ ExIdle /\ CorrIdle /\ CallsIdle

Next ==
  \/ Refresh
  \/ \E k \in 1..Len(runs) : FetchSettles(k)
  \/ \E k \in 1..Len(runs) : FetchFails(k)
  \/ \E k \in 1..Len(runs) : ProcessSettles(k)
  \/ \E k \in 1..Len(runs) : SummarySettles(k)
  \/ forceStop
  \/ ModelsLoaded

Spec == Init /\ [][Next]_vars

Executing == {k \in 1..Len(runs) : runs[k].pc \in InFlight}

\* C1: at most one run is executing (started and not yet returned) at any
\* time, whatever the interleaving of refresh and forceStop calls.
C1_AtMostOneRunExecuting == Cardinality(Executing) <= 1

\* C2: a refreshThreatIntelligence call made while isProcessing is true
\* throws the 'already processing' error and changes neither the flag, the
\* status, the stores nor any earlier call's state.
C2_RejectedCallTouchesNothing ==
  [][(Len(runs') = Len(runs) + 1 /\ isProcessing
      /\ runs'[Len(runs')].from = "caller") =>
       /\ runs'[Len(runs')].pc = "rejected"
       /\ runs'[Len(runs')].result = AlreadyProcessing
       /\ SubSeq(runs', 1, Len(runs)) = runs
       /\ UNCHANGED <<isProcessing, processingStatus, reports, iocs>>]_vars

\* a call was rejected and the run it collided with is still in flight
C2_Witness ==
  /\ isProcessing
  /\ Executing # {}
  /\ \E k \in 1..Len(runs) : runs[k].pc = "rejected"

BucketType ==
  [ips |-> "ip", urls |-> "url", hashes |-> "hash", domains |-> "domain",
   emails |-> "email"]

Traceable(report) ==
  \A bucket \in DOMAIN BucketType :
    \A n \in 1..Len(report.iocs[bucket]) :
      \E j \in 1..Len(iocs) :
        /\ iocs[j].type = BucketType[bucket]
        /\ iocs[j].value = report.iocs[bucket][n]

\* C5: once the runs have completed, every indicator value a stored report
\* lists is a record of that type in the Indicator Store.
C5_ReportIndicatorsInStore ==
  (Executing = {}) => \A i \in 1..Len(reports) : Traceable(reports[i])

\* ------------------------------------------------- ThreatCampaignDetector
stopWords ==
  {"the", "and", "a", "an", "in", "on", "at", "to", "for", "with", "by", "about",
   "as", "into", "like", "through", "after", "over", "between", "out", "against",
   "during", "without", "before", "under", "around", "among"}

\* extractKeywords: lowercased tags, title words longer than 4 and
\* description words longer than 5 that are not stop words
extractKeywords(report) ==
  LET titleWords == {toLowerCase(report.title[i]) : i \in 1..Len(report.title)}
      descWords == {toLowerCase(report.description[i]) :
                      i \in 1..Len(report.description)}
  IN {toLowerCase(report.tags[i]) : i \in 1..Len(report.tags)}
     \cup {w \in titleWords : StrLen(w) > 4 /\ w \notin stopWords}
     \cup {w \in descWords : StrLen(w) > 5 /\ w \notin stopWords}

campaignKeywords_FirstMember(all, members) == extractKeywords(all[members[1]])

\* the keyword set accumulated from a cluster's members (indices into all)
campaignKeywords(all, members) ==
  UNION {extractKeywords(all[members[m]]) : m \in 1..Len(members)}

\* similarity > 0.3, with similarity = shared / max(1, min(|kw|, |cluster kw|))
Similar(keywords, clusterKeywords) ==
  10 * Cardinality(keywords \cap clusterKeywords)
    > 3 * Max(1, Min(Cardinality(keywords), Cardinality(clusterKeywords)))

MayAssign_EverySimilar(similar, assigned) == similar

\* the condition under which the report is pushed to the cluster at hand
MayAssign(similar, assigned) == similar /\ ~assigned

\* the inner forEach over Object.keys(potentialCampaigns) for report r
RECURSIVE AssignLoop(_, _, _, _, _)
AssignLoop(all, clusters, r, c, assigned) ==
  IF c > Len(clusters) THEN [clusters |-> clusters, assigned |-> assigned]
  ELSE LET similar == Similar(extractKeywords(all[r]),
                              campaignKeywords(all, clusters[c]))
       IN IF MayAssign(similar, assigned)
          THEN AssignLoop(all, [clusters EXCEPT ![c] = Append(@, r)], r, c + 1, TRUE)
          ELSE AssignLoop(all, clusters, r, c + 1, assigned)

\* the outer forEach: potentialCampaigns after reports r..Len(all)
RECURSIVE ClusterFrom(_, _, _)
ClusterFrom(all, clusters, r) ==
  IF r > Len(all) THEN clusters
  ELSE LET after == AssignLoop(all, clusters, r, 1, FALSE) IN
       ClusterFrom(all,
                   IF after.assigned THEN after.clusters
                   ELSE Append(after.clusters, <<r>>),
                   r + 1)

IsValidCampaign_NonEmpty(members) == Len(members) > 0

\* potentialCampaigns[id].length > 1
IsValidCampaign(members) == Len(members) > 1

severityLevels == [low |-> 1, medium |-> 2, high |-> 3, critical |-> 4]

\* the forEach that raises highestSeverity from 'low'
RECURSIVE HighestFrom(_, _, _, _)
HighestFrom(all, members, m, highestSeverity) ==
  IF m > Len(members) THEN highestSeverity
  ELSE LET severity == all[members[m]].severity IN
       HighestFrom(all, members, m + 1,
                   IF severityLevels[severity] > severityLevels[highestSeverity]
                   THEN severity ELSE highestSeverity)

highestSeverity_FromMedium(all, members) == HighestFrom(all, members, 1, "medium")

highestSeverity(all, members) == HighestFrom(all, members, 1, "low")

Now == 10
RecencyWindowDays == 30

\* number of indicator values counted as shared: per type, the size of the
\* union over the members when that union has more than one value
sharedIocCount(all, members) ==
  LET iocSet(bucket) ==
        UNION {Range(all[members[m]].iocs[bucket]) : m \in 1..Len(members)}
      Count(bucket) ==
        IF Cardinality(iocSet(bucket)) > 1 THEN Cardinality(iocSet(bucket)) ELSE 0
  IN Count("ips") + Count("urls") + Count("hashes") + Count("domains")
     + Count("emails")

RECURSIVE SumAges(_, _, _)
SumAges(all, members, m) ==
  IF m > Len(members) THEN 0
  ELSE (Now - all[members[m]].timestamp) + SumAges(all, members, m + 1)

\* the score of calculateConfidence for n reports whose ages (in days) sum
\* to sumAges and whose shared indicator count is shared:
\* min(100, round((n/2 cap 5 + recency + shared/5 cap 3) * 11)), computed
\* over the common denominator 2 * 5 * RecencyWindowDays * n
ConfidenceScore(n, sumAges, shared) ==
  LET den == 10 * RecencyWindowDays * n
      reportCount == Min(5 * RecencyWindowDays * n * n, 5 * den)
      recency == Max(0, den - 10 * sumAges)
      iocFactor == Min(2 * RecencyWindowDays * n * shared, 3 * den)
      scaled == 11 * (reportCount + recency + iocFactor)
  IN IF n < 2 THEN 0 ELSE Min(100, (2 * scaled + den) \div (2 * den))

\* calculateConfidence of a campaign
campaignConfidence(all, members) ==
  ConfidenceScore(Len(members), SumAges(all, members, 1),
                  sharedIocCount(all, members))

\* the campaign object built for cluster number id
Campaign(all, clusters, id, name) ==
  [id |-> id,
   name |-> name,
   reports |-> clusters[id],
   severity |-> highestSeverity(all, clusters[id]),
   confidence |-> campaignConfidence(all, clusters[id])]

\* sort by severity, then by confidence, both descending (stable)
Precedes(a, b) ==
  \/ severityLevels[a.severity] > severityLevels[b.severity]
  \/ /\ severityLevels[a.severity] = severityLevels[b.severity]
     /\ a.confidence >= b.confidence

RECURSIVE SortCampaigns(_)
SortCampaigns(s) ==
  IF s = <<>> THEN <<>>
  ELSE LET rest == SortCampaigns(SubSeq(s, 1, Len(s) - 1))
           x == s[Len(s)]
           k == Cardinality({i \in 1..Len(rest) : Precedes(rest[i], x)})
       IN SubSeq(rest, 1, k) \o <<x>> \o SubSeq(rest, k + 1, Len(rest))

\* findCommonWords: the title words longer than 4 that are not stop words
\* and occur more than once over the titles, most frequent first
ImportantTitleWords(all, members) ==
  LET Words(m) == SelectSeq([i \in 1..Len(all[members[m]].title) |->
                              toLowerCase(all[members[m]].title[i])],
                           LAMBDA w : StrLen(w) > 4 /\ w \notin stopWords)
      Flat[m \in 0..Len(members)] == IF m = 0 THEN <<>> ELSE Flat[m - 1] \o Words(m)
  IN Flat[Len(members)]

\* number of times word w occurs in the sequence occurrences
WordCount(occurrences, w) ==
  Cardinality({i \in 1..Len(occurrences) : occurrences[i] = w})

\* sort((a, b) => b[1] - a[1]) on the entries of wordCounts (stable)
RECURSIVE SortByCount(_, _)
SortByCount(words, occurrences) ==
  IF words = <<>> THEN <<>>
  ELSE LET rest == SortByCount(SubSeq(words, 1, Len(words) - 1), occurrences)
           x == words[Len(words)]
           k == Cardinality({i \in 1..Len(rest) :
                               WordCount(occurrences, rest[i])
                                 >= WordCount(occurrences, x)})
       IN SubSeq(rest, 1, k) \o <<x>> \o SubSeq(rest, k + 1, Len(rest))

findCommonWords(all, members) ==
  LET occurrences == ImportantTitleWords(all, members)
      firstSeen == SelectSeq([i \in 1..Len(occurrences) |->
                                IF \E j \in 1..(i - 1) : occurrences[j] = occurrences[i]
                                THEN "" ELSE occurrences[i]],
                             LAMBDA w : w # "" /\ WordCount(occurrences, w) > 1)
  IN SortByCount(firstSeen, occurrences)

FallbackName_Empty(all, members, id) == <<>>

\* the name used when the enrichment gave none
FallbackName(all, members, id) ==
  LET commonWords == findCommonWords(all, members) IN
  IF Len(commonWords) > 0
  THEN <<"Campaign", id>> \o SubSeq(commonWords, 1, Min(3, Len(commonWords)))
  ELSE <<"Threat Campaign", id>>

\* how the race of generateSummary against the 10 s timeout can end: a
\* summary with a NAME line, a summary without one, null, a rejection, or
\* the timeout winning
EnrichmentOutcomes == {"named", "unnamed", "null", "rejected", "timeout"}

\* campaignName after the enrichment block and the fallback block
campaignName(outcome, all, members, id) ==
  IF outcome = "named" THEN <<"LLM name", id>> ELSE FallbackName(all, members, id)

\* detectCampaigns up to its first await: snapshot, clustering, the
\* filter, and every campaign that needs no enrichment call
RECURSIVE BuildAll(_, _, _, _)
BuildAll(all, clusters, ids, detected) ==
  IF ids = <<>> THEN detected
  ELSE BuildAll(all, clusters, Tail(ids),
                Append(detected,
                       Campaign(all, clusters, Head(ids),
                                FallbackName(all, clusters[Head(ids)], Head(ids)))))

DetectCampaigns ==
  /\ corr.pc \in {"idle", "done"}
  /\ \E ollamaAvailable \in BOOLEAN :
       LET all == reports
           potentialCampaigns == ClusterFrom(all, <<>>, 1)
           validCampaignIds ==
             SelectSeq([i \in 1..Len(potentialCampaigns) |-> i],
                       LAMBDA id : IsValidCampaign(potentialCampaigns[id]))
       IN IF all = <<>>
          THEN corr' = [pc |-> "done", reports |-> all, potentialCampaigns |-> <<>>,
                        pending |-> <<>>, settled |-> <<>>, detected |-> <<>>,
                        campaigns |-> <<>>]
          ELSE IF ollamaAvailable /\ validCampaignIds # <<>>
          THEN corr' = [pc |-> "enrich", reports |-> all,
                        potentialCampaigns |-> potentialCampaigns,
                        pending |-> validCampaignIds, settled |-> <<>>,
                        detected |-> <<>>, campaigns |-> <<>>]
          ELSE corr' = [pc |-> "done", reports |-> all,
                        potentialCampaigns |-> potentialCampaigns,
                        pending |-> <<>>, settled |-> <<>>, detected |-> <<>>,
                        campaigns |->
                          SortCampaigns(BuildAll(all, potentialCampaigns,
                                                 validCampaignIds, <<>>))]
  /\ UNCHANGED <<pipeVars, storeVars, exVars, callVars>>

\* the race of generateSummary against the timeout settles for the campaign
\* at the head of pending; settled keeps how each call of the pass ended
EnrichmentSettles ==
  /\ corr.pc = "enrich"
  /\ \E outcome \in EnrichmentOutcomes :
       LET id == Head(corr.pending)
           name == campaignName(outcome, corr.reports, corr.potentialCampaigns[id], id)
           detected == Append(corr.detected,
                              Campaign(corr.reports, corr.potentialCampaigns, id, name))
           settled == Append(corr.settled, [id |-> id, outcome |-> outcome])
       IN IF Len(corr.pending) > 1
          THEN corr' = [corr EXCEPT !.pending = Tail(@), !.detected = detected,
                                    !.settled = settled]
          ELSE corr' = [corr EXCEPT !.pc = "done", !.pending = <<>>,
                                    !.detected = <<>>, !.settled = settled,
                                    !.campaigns = SortCampaigns(detected)]
  /\ UNCHANGED <<pipeVars, storeVars, exVars, callVars>>

CorrTitles == <<<<"Conti", "leak">>, <<"Bank", "leak">>, <<"Bank", "kit">>,
                <<"Conti", "kit">>, <<"New", "leak">>>>

CorrDescriptions == {<<>>, <<"phishing">>}

\* a stored collection: distinct (title, source), tags as generateTags
\* derives them, a severity of the enum
CorrReport(i, description, severity) ==
  [id |-> i, title |-> CorrTitles[i], description |-> description, content |-> <<>>,
   source |-> "CISA", timestamp |-> i, severity |-> severity, iocs |-> NoIndicators,
   aiSummary |-> "null", processed |-> FALSE,
   tags |-> generateTags(CorrTitles[i], description)]

InitCorr ==
  /\ PipeIdle /\ aiReady = FALSE
  /\ iocs = <<>> /\ lastCall = NoCall
  /\ ExIdle /\ CorrIdle /\ CallsIdle
  /\ \E n \in 0..MaxCorrReports :
       \E d \in [1..n -> CorrDescriptions], sev \in [1..n -> DOMAIN severityLevels] :
         reports = [i \in 1..n |-> CorrReport(i, d[i], sev[i])]

NextCorr == DetectCampaigns \/ EnrichmentSettles

SpecCorr == InitCorr /\ [][NextCorr]_vars

AllCampaigns == IF corr.pc = "idle" THEN <<>> ELSE corr.detected \o corr.campaigns

SharesKeyword(a, b) == extractKeywords(a) \cap extractKeywords(b) # {}

\* C8: every campaign has at least two member reports, and a pass over
\* reports no two of which share a keyword ends with no campaign at all.
C8_CampaignsHaveTwoMembers ==
  /\ \A c \in 1..Len(AllCampaigns) :
       Cardinality(Range(AllCampaigns[c].reports)) >= 2
  /\ (corr.pc = "done"
      /\ \A i, j \in 1..Len(corr.reports) :
           i # j => ~SharesKeyword(corr.reports[i], corr.reports[j]))
       => corr.campaigns = <<>>

Clusters == IF corr.pc = "idle" THEN <<>> ELSE corr.potentialCampaigns

TimesIn(members, r) == Cardinality({m \in 1..Len(members) : members[m] = r})

RECURSIVE Memberships(_, _)
Memberships(clusters, r) ==
  IF clusters = <<>> THEN 0
  ELSE TimesIn(Head(clusters), r) + Memberships(Tail(clusters), r)

\* C9: in one pass no report is a member of more than one cluster or
\* campaign.
C9_AtMostOneCluster ==
  /\ \A r \in 1..Len(reports) : Memberships(Clusters, r) <= 1
  /\ \A r \in 1..Len(reports) :
       Memberships([c \in 1..Len(AllCampaigns) |-> AllCampaigns[c].reports], r) <= 1

MemberLevels(c) == {severityLevels[corr.reports[c.reports[m]].severity] :
                      m \in 1..Len(c.reports)}

\* C10: a campaign's severity is the maximum of its members' severities
\* under low < medium < high < critical.
C10_SeverityIsMaximum ==
  \A c \in 1..Len(AllCampaigns) :
    /\ severityLevels[AllCampaigns[c].severity] \in MemberLevels(AllCampaigns[c])
    /\ \A l \in MemberLevels(AllCampaigns[c]) :
         l <= severityLevels[AllCampaigns[c].severity]

\* a pass that discarded a singleton cluster and kept a campaign
C8_Witness ==
  /\ corr.pc = "done"
  /\ Len(corr.campaigns) >= 1
  /\ \E c \in 1..Len(corr.potentialCampaigns) : Len(corr.potentialCampaigns[c]) = 1

\* a finished pass in which a report exceeded the threshold for two clusters
\* that existed when it was processed
C9_Witness ==
  /\ corr.pc = "done"
  /\ \E r \in 1..Len(corr.reports) :
       \E a, b \in 1..Len(corr.potentialCampaigns) :
         LET Before(c) == SelectSeq(corr.potentialCampaigns[c], LAMBDA m : m < r) IN
         /\ a # b
         /\ Before(a) # <<>> /\ Before(b) # <<>>
         /\ Similar(extractKeywords(corr.reports[r]),
                    campaignKeywords(corr.reports, Before(a)))
         /\ Similar(extractKeywords(corr.reports[r]),
                    campaignKeywords(corr.reports, Before(b)))

\* a campaign of low, critical and medium members, rated critical
C10_Witness ==
  /\ corr.pc = "done"
  /\ \E c \in 1..Len(corr.campaigns) :
       /\ MemberLevels(corr.campaigns[c]) = {1, 2, 4}
       /\ corr.campaigns[c].severity = "critical"

\* ------------------------------------------- calculateConfidence on its own
\* indicator buckets organizeIOCs can produce from the catalogue: one
\* record per (type, lowercased value)
ScoredBuckets ==
  {[ips |-> ip, urls |-> url, hashes |-> <<>>, domains |-> d, emails |-> <<>>] :
     ip \in {<<>>, <<"45.129.96.147">>},
     url \in {<<>>, <<"http://evil.tk/x">>},
     d \in {<<>>, <<"evil.com">>, <<"EVIL.COM">>}}

\* the member reports of a campaign: at least two
InitConfidence ==
  /\ PipeIdle /\ aiReady = FALSE
  /\ iocs = <<>> /\ lastCall = NoCall
  /\ ExIdle /\ CorrIdle /\ CallsIdle
  /\ \E n \in 2..MaxCorrReports :
       \E b \in [1..n -> ScoredBuckets] :
         reports = [i \in 1..n |->
                      [CorrReport(i, <<>>, "medium") EXCEPT !.iocs = b[i]]]

CalculateConfidence ==
  /\ ~scored.done
  /\ scored' = [done |-> TRUE,
                confidence |->
                  campaignConfidence(reports, [m \in 1..Len(reports) |-> m])]
  /\ UNCHANGED <<pipeVars, storeVars, exVars, corr, ollama, gens, feedVars>>

NextConfidence == CalculateConfidence

SpecConfidence == InitConfidence /\ [][NextConfidence]_vars

\* the members of all (by index) that list value v in the bucket
HoldersOf(all, bucket, v) ==
  {m \in 1..Len(all) : v \in Range(all[m].iocs[bucket])}

\* summed over the indicator types, the number of values that occur in
\* more than one report of all
ValuesInMoreThanOne(all) ==
  LET Count(bucket) ==
        Cardinality({v \in UNION {Range(all[m].iocs[bucket]) : m \in 1..Len(all)} :
                       Cardinality(HoldersOf(all, bucket, v)) > 1})
  IN Count("ips") + Count("urls") + Count("hashes") + Count("domains")
     + Count("emails")

\* C11: a campaign's confidence is min(100, round((reportCountFactor +
\* recencyFactor + iocFactor) * 11)) with iocFactor = min(shared / 5, 3),
\* where shared counts, over the indicator types, the values that occur in
\* more than one member report.
C11_SharedCountsValuesOfSeveralMembers ==
  scored.done =>
    scored.confidence =
      ConfidenceScore(Len(reports), SumAges(reports, [m \in 1..Len(reports) |-> m], 1),
                      ValuesInMoreThanOne(reports))

\* ------------------------------------------------ clustering, step by step
\* the members of cluster c that were processed before report r
EarlierMembers(c, r) == SelectSeq(corr.potentialCampaigns[c], LAMBDA m : m < r)

\* the keywords of every member cluster c had when report r was processed
AccumulatedKeywords(c, r) ==
  UNION {extractKeywords(corr.reports[m]) : m \in Range(EarlierMembers(c, r))}

\* |shared| / min(|report keywords|, |cluster keywords|) > 0.3
SimilarityExceeds(keywords, clusterKeywords) ==
  LET shared == Cardinality(keywords \cap clusterKeywords)
      smaller == Min(Cardinality(keywords), Cardinality(clusterKeywords))
  IN smaller > 0 /\ 10 * shared > 3 * smaller

\* the clusters that existed and qualified when report r was processed
Qualifying(r) ==
  {c \in 1..Len(corr.potentialCampaigns) :
     /\ EarlierMembers(c, r) # <<>>
     /\ SimilarityExceeds(extractKeywords(corr.reports[r]), AccumulatedKeywords(c, r))}

C13_FallbackNameOnEnrichmentFailure ==
  corr.pc # "idle" =>
    \A e \in 1..Len(corr.settled) :
      corr.settled[e].outcome # "named" =>
        \E c \in 1..Len(AllCampaigns) :
          /\ AllCampaigns[c].id = corr.settled[e].id
          /\ AllCampaigns[c].name # <<>>
          /\ AllCampaigns[c].name[1] \in {"Campaign", "Threat Campaign"}

\* a finished pass that returned a campaign whose enrichment timed out
C13_Witness ==
  /\ corr.pc = "done"
  /\ \E e \in 1..Len(corr.settled) :
       /\ corr.settled[e].outcome = "timeout"
       /\ \E c \in 1..Len(corr.campaigns) : corr.campaigns[c].id = corr.settled[e].id

\* ------------------------------------------------------------ ollamaService
\* what /api/tags can list as installed
InstalledNames == {"llama3:latest", "mistral"}

\* name.split(':')[0]
BaseName(name) == IF name = "llama3:latest" THEN "llama3" ELSE name

\* String.prototype.startsWith over the model names and `${name}:`
StartsWith(name, prefix) ==
  \/ name = prefix
  \/ name = "llama3:latest" /\ prefix \in {"llama3", "llama3:"}

\* the match of an installed name against a configured model name
InstalledMatches(installedName, modelName) ==
  \/ toLowerCase(installedName) = toLowerCase(modelName)
  \/ \E withColon \in {"llama3:", "mistral:"} :
       /\ withColon = IF toLowerCase(modelName) = "llama3" THEN "llama3:"
                      ELSE IF toLowerCase(modelName) = "mistral" THEN "mistral:"
                      ELSE ""
       /\ StartsWith(toLowerCase(installedName), withColon)
  \/ BaseName(toLowerCase(installedName)) = toLowerCase(modelName)

\* the first forEach of checkConnection: availability and exact names
MarkAvailable(models, installedModels) ==
  [i \in 1..Len(models) |->
     LET matching == SelectSeq(installedModels,
                               LAMBDA n : InstalledMatches(n, models[i].name))
     IN IF matching # <<>> THEN [name |-> Head(matching), available |-> TRUE]
        ELSE [models[i] EXCEPT !.available = FALSE]]

\* the second forEach: installed models that were not configured are added
RECURSIVE AddDetected(_, _)
AddDetected(models, installedModels) ==
  IF installedModels = <<>> THEN models
  ELSE LET modelName == BaseName(Head(installedModels))
           existingModel == \E i \in 1..Len(models) :
                              \/ models[i].name = modelName
                              \/ StartsWith(modelName, models[i].name)
       IN AddDetected(IF existingModel THEN models
                      ELSE Append(models, [name |-> modelName, available |-> TRUE]),
                      Tail(installedModels))

\* the default model after a successful check
DefaultAfter(models, defaultModel) ==
  LET defaultIsAvailable == \E i \in 1..Len(models) :
                              models[i].name = defaultModel /\ models[i].available
      available == SelectSeq(models, LAMBDA m : m.available)
  IN IF ~defaultIsAvailable /\ available # <<>> THEN Head(available).name
     ELSE defaultModel

\* how the GET /api/tags of checkConnection can end
CheckOutcomes == {"unreachable", "timeout", "http error", "malformed", "ok"}

\* checkConnection from the point its fetch settles
checkConnection(service, outcome, installedModels) ==
  IF outcome = "ok"
  THEN LET models == AddDetected(MarkAvailable(service.config.models, installedModels),
                                 installedModels)
       IN [isConnected |-> TRUE,
           config |-> [models |-> models,
                       defaultModel |-> DefaultAfter(models, service.config.defaultModel)]]
  ELSE [service EXCEPT !.isConnected = FALSE]

NullResult == [kind |-> "null"]

\* the model name sent with the request, as the pieces of the string
modelToUse(config, model) ==
  IF \E i \in 1..Len(config.models) :
       config.models[i].name = model /\ config.models[i].available
  THEN <<model>>
  ELSE LET availableTagged == SelectSeq(config.models,
                                LAMBDA m : StartsWith(m.name, model) /\ m.available)
       IN IF availableTagged # <<>> THEN <<Head(availableTagged).name>>
          ELSE <<model, ":latest">>

GenCall(pc, model) ==
  [pc |-> pc, model |-> model, modelToUse |-> <<>>, settled |-> "pending",
   value |-> NullResult]

\* the request of generateSummary is sent
SendRequest(call) ==
  [call EXCEPT !.pc = "request",
               !.modelToUse = modelToUse(ollama'.config, call.model)]

OnGenerateError_Rethrow(call) ==
  [call EXCEPT !.pc = "returned", !.settled = "rejected"]

\* the catch block of generateSummary
OnGenerateError(call) ==
  [call EXCEPT !.pc = "returned", !.settled = "resolved", !.value = NullResult]

\* generateSummary is called; a connected service sends the request at once
GenerateSummary ==
  /\ Len(gens) < MaxGenCalls
  /\ \E model \in {ollama.config.defaultModel, "mistral"} :
       /\ ollama' = ollama
       /\ gens' = Append(gens, IF ollama.isConnected
                               THEN SendRequest(GenCall("request", model))
                               ELSE GenCall("check", model))
  /\ UNCHANGED <<pipeVars, storeVars, exVars, corr, scored, feedVars>>

\* the checkConnection awaited by call k settles
CheckSettles(k) ==
  /\ gens[k].pc = "check"
  /\ \E outcome \in CheckOutcomes, installedModels \in SeqsUpTo(InstalledNames, 2) :
       /\ outcome # "ok" => installedModels = <<>>
       /\ \A i, j \in 1..Len(installedModels) :
            i < j => installedModels[i] # installedModels[j]
       /\ ollama' = checkConnection(ollama, outcome, installedModels)
  /\ gens' = [gens EXCEPT ![k].pc = "checked"]
  /\ UNCHANGED <<pipeVars, storeVars, exVars, corr, scored, feedVars>>

\* call k resumes after its await of checkConnection
CheckResumes(k) ==
  /\ gens[k].pc = "checked"
  /\ ollama' = ollama
  /\ gens' = [gens EXCEPT ![k] =
                IF ~ollama.isConnected
                THEN [@ EXCEPT !.pc = "returned", !.settled = "resolved",
                               !.value = NullResult]
                ELSE SendRequest(@)]
  /\ UNCHANGED <<pipeVars, storeVars, exVars, corr, scored, feedVars>>

\* how the POST /api/generate can end
RequestOutcomes ==
  {"unreachable", "timeout", "http error", "malformed", "no response text", "ok"}

\* the request of call k settles
RequestSettles(k) ==
  /\ gens[k].pc = "request"
  /\ \E outcome \in RequestOutcomes :
       gens' = [gens EXCEPT ![k] =
                  IF outcome = "ok"
                  THEN [@ EXCEPT !.pc = "returned", !.settled = "resolved",
                                 !.value = [kind |-> "result", summary |-> "text",
                                            model |-> <<"Ollama/", gens[k].model>>,
                                            processingTime |-> 0]]
                  ELSE OnGenerateError(@)]
  /\ UNCHANGED <<pipeVars, storeVars, exVars, corr, scored, ollama, feedVars>>

InitOllama ==
  /\ PipeIdle /\ aiReady = FALSE
  /\ StoreEmpty /\ ExIdle /\ CorrIdle /\ CallsIdle

NextOllama ==
  \/ GenerateSummary
  \/ \E k \in 1..Len(gens) : CheckSettles(k)
  \/ \E k \in 1..Len(gens) : CheckResumes(k)
  \/ \E k \in 1..Len(gens) : RequestSettles(k)

SpecOllama == InitOllama /\ [][NextOllama]_vars

\* C14: generateSummary never rejects: whatever the connection check and
\* the request do, the call resolves to a result {summary, model,
\* processingTime} or to null.
C14_GenerateSummaryNeverRejects ==
  \A k \in 1..Len(gens) :
    /\ gens[k].settled # "rejected"
    /\ gens[k].pc = "returned" =>
         /\ gens[k].settled = "resolved"
         /\ \/ gens[k].value = NullResult
            \/ /\ gens[k].value.kind = "result"
               /\ DOMAIN gens[k].value = {"kind", "summary", "model", "processingTime"}

\* one call returned null because its request failed while another call,
\* made on the connection that call's check had opened, returned a result
C14_Witness ==
  \E j, k \in 1..Len(gens) :
    /\ gens[j].pc = "returned" /\ gens[j].value = NullResult
    /\ gens[j].modelToUse # <<>>
    /\ gens[k].pc = "returned" /\ gens[k].value # NullResult

\* -------------------------------------------------------------- feedParser
CORS_PROXIES ==
  <<"https://corsproxy.io/?", "https://api.allorigins.win/raw?url=",
    "https://thingproxy.freeboard.io/fetch/",
    "https://api.rss2json.com/v1/api.json?rss_url=",
    "https://api.rss2json.com/v1/api.json?rss_url=",
    "https://api.npoint.io/proxy?url=">>

\* (this.proxyIndex + 1) % CORS_PROXIES.length
Advance(index) == (index + 1) % Len(CORS_PROXIES)

\* fetchFeed up to the await of its first request (VITE_CORS_PROXY unset):
\* the proxy is the one proxyIndex names when the request is built
StartFetch ==
  /\ Len(fetches) < MaxFetches
  /\ fetches' = Append(fetches, [pc |-> "request", attempt |-> 0,
                                 tried |-> <<proxyIndex>>, result |-> "none"])
  /\ UNCHANGED <<proxyIndex, pipeVars, storeVars, exVars, corr, scored, ollama, gens>>

\* how one proxied request can end: a feed that parses, a response that
\* passes the XML test but that parseXML cannot read, or a failure (network
\* error, timeout, HTTP error, not XML)
AttemptOutcomes == {"items", "unreadable", "fails"}

\* the rest of the loop body after the request of call k settles, and, on
\* a failure, the next iteration up to its await
AttemptSettles(k) ==
  /\ fetches[k].pc = "request"
  /\ proxyIndex' = Advance(proxyIndex)
  /\ \E outcome \in AttemptOutcomes :
       fetches' = [fetches EXCEPT ![k] =
         CASE outcome = "items" -> [@ EXCEPT !.pc = "returned", !.result = "items"]
           [] outcome = "unreadable" ->
                [@ EXCEPT !.pc = "returned", !.result = "mock from parseXML"]
           [] OTHER ->
                IF fetches[k].attempt + 1 < Len(CORS_PROXIES)
                THEN [@ EXCEPT !.attempt = @ + 1,
                               !.tried = Append(@, Advance(proxyIndex))]
                ELSE [@ EXCEPT !.attempt = @ + 1, !.pc = "returned",
                               !.result = "mock"]]
  /\ UNCHANGED <<pipeVars, storeVars, exVars, corr, scored, ollama, gens>>

InitFeed ==
  /\ PipeIdle /\ aiReady = FALSE
  /\ StoreEmpty /\ ExIdle /\ CorrIdle /\ CallsIdle

NextFeed ==
  \/ StartFetch
  \/ \E k \in 1..Len(fetches) : AttemptSettles(k)

SpecFeed == InitFeed /\ [][NextFeed]_vars

\* the proxies (as indices into CORS_PROXIES, from 0) call k has requested
ProxiesTried(k) == Range(fetches[k].tried)

\* C26: a fetchFeed call falls back to mock data only after it has
\* attempted every entry of CORS_PROXIES once, also when other fetchFeed
\* calls run concurrently and share proxyIndex.
C26_FallbackAfterEveryProxy ==
  \A k \in 1..Len(fetches) :
    fetches[k].result = "mock" =>
      /\ Len(fetches[k].tried) = Len(CORS_PROXIES)
      /\ ProxiesTried(k) = 0..(Len(CORS_PROXIES) - 1)

\* -------------------------------------------------- the status subscribers
\* C27: a refreshThreatIntelligence call that a subscriber makes from its
\* callback, on being notified of isProcessing = false at the end of a run
\* (step 'Complete' or 'Error'), is accepted: the flag is released by then.
C27_CallFromStatusCallbackAccepted ==
  \A k \in 1..Len(runs) :
    runs[k].from = "status callback" => runs[k].pc # "rejected"

\* ------------------------------------------------------ runs come to an end
\* an await of run k settles
Settles(k) ==
  /\ k <= Len(runs)
  /\ FetchSettles(k) \/ FetchFails(k) \/ ProcessSettles(k) \/ SummarySettles(k)

\* the pipeline when every awaited call eventually settles
SpecSettling == Spec /\ \A k \in 1..MaxRuns : WF_vars(Settles(k))

\* run k is accepted and has not returned
Running(k) == k <= Len(runs) /\ runs[k].pc \in InFlight

\* run k has returned
Returned(k) == k <= Len(runs) /\ runs[k].pc = "done"

\* C28: when every awaited call eventually settles, every accepted run
\* eventually returns, and on the success path and on the top-level
\* failure path alike it leaves isProcessing false: the flag is never set
\* while no run is in flight, so a later call is accepted.
C28_RunsReturnAndReleaseTheGuard ==
  /\ \A k \in 1..MaxRuns : Running(k) ~> Returned(k)
  /\ [][\A k \in 1..Len(runs) :
          (runs[k].pc \in InFlight /\ runs'[k].pc = "done") => ~isProcessing']_vars
  /\ [](isProcessing => Executing # {})

\* one run has returned on the failure path and a later one on the success
\* path, and the guard is open
C28_Witness ==
  /\ ~isProcessing
  /\ Executing = {}
  /\ \E j, k \in 1..Len(runs) :
       /\ j < k
       /\ runs[j].pc = "done" /\ ~runs[j].result.success
       /\ runs[k].pc = "done" /\ runs[k].result.success

\* ------------------------------------------------- the run's result and errors
Finished == {k \in 1..Len(runs) : runs[k].pc \notin InFlight}

\* C15: every refreshThreatIntelligence call completes by returning an
\* object {success, processed, errors}, a call made while a run is in flight
\* included, and success is false only with a top-level error recorded.
C15_EveryCallReturnsAResult ==
  \A k \in Finished :
    /\ runs[k].pc = "done"
    /\ DOMAIN runs[k].result = {"success", "processed", "errors"}
    /\ ~runs[k].result.success =>
         \E e \in 1..Len(runs[k].result.errors) :
           runs[k].result.errors[e].kind = "Pipeline error"

ErrorsOfKind(errors, kind) == SelectSeq(errors, LAMBDA e : e.kind = kind)

\* the step in which run k returns from step 5
Completes(k) ==
  /\ k <= Len(runs')
  /\ runs[k].pc \in {"process", "ai"}
  /\ runs'[k].pc = "done"

\* C16: when extraction throws for a report of a run, the report is saved
\* with every indicator bucket empty, the run's errors get one entry for
\* it, the other reports are extracted and saved with their indicators,
\* processed counts the reports extracted, and the run returns success.
C16_ExtractionFailureIsPerReport ==
  [][\A k \in 1..Len(runs) :
       (Completes(k)
        /\ ErrorsOfKind(runs'[k].result.errors, "IOC extraction failed for") # <<>>)
         => LET batch == runs[k].newReports
                failures == ErrorsOfKind(runs'[k].result.errors,
                                         "IOC extraction failed for")
                Failed(i) == \E e \in 1..Len(failures) :
                               failures[e].title = batch[i].title
                failed == {i \in 1..Len(batch) : Failed(i)}
            IN /\ runs'[k].result.success
               /\ runs'[k].result.processed = Len(batch) - Cardinality(failed)
               /\ Len(failures) = Cardinality(failed)
               /\ \A i \in 1..Len(batch) :
                    \E j \in 1..Len(reports') :
                      /\ reports'[j].id = batch[i].id
                      /\ reports'[j].iocs =
                           IF Failed(i) THEN NoIndicators
                           ELSE organizeIOCs(extractIOCs(ReportText(batch[i])))]_vars

\* a run returned success with one report extracted and one that failed,
\* and the failed one is stored without indicators
C16_Witness ==
  \E k \in 1..Len(runs) :
    /\ runs[k].pc = "done"
    /\ runs[k].result.success
    /\ runs[k].result.processed = 1
    /\ \E e \in 1..Len(runs[k].result.errors) :
         /\ runs[k].result.errors[e].kind = "IOC extraction failed for"
         /\ \E j \in 1..Len(reports) :
              /\ reports[j].title = runs[k].result.errors[e].title
              /\ reports[j].iocs = NoIndicators
              /\ extractIOCs(ReportText(reports[j])) # <<>>

\* C17: a summary that is unavailable or fails is never fatal and always
\* leaves a fallback result: every stored report carries a non-null
\* summary, and a run with a failed summary still returns success.
C17_EverySavedReportHasASummary ==
  /\ \A i \in 1..Len(reports) : reports[i].aiSummary # "null"
  /\ \A k \in 1..Len(runs) :
       (runs[k].pc = "done"
        /\ ErrorsOfKind(runs[k].result.errors, "AI summary failed for") # <<>>)
         => runs[k].result.success

\* C18: once forceStop has reported 'Stopped', the status stays 'Stopped'
\* until a new call is accepted: the abandoned run delivers no further
\* status update.
C18_StatusStaysStopped ==
  [][(processingStatus.currentStep = "Stopped" /\ Len(runs') = Len(runs))
       => /\ processingStatus'.currentStep = "Stopped"
          /\ ~processingStatus'.isProcessing]_vars

\* the reports a run still in flight is working on
BatchIds == UNION {{runs[k].newReports[i].id : i \in 1..Len(runs[k].newReports)} :
                     k \in Executing}

\* C19: no report of a batch is in the Report store before the run has
\* finished extraction over the whole batch: a stored report never belongs
\* to a run still in flight, and its indicator sets are the final ones.
C19_NoReportStoredBeforeExtraction ==
  \A j \in 1..Len(reports) :
    /\ reports[j].id \notin BatchIds
    /\ reports[j].iocs \in
         {NoIndicators, organizeIOCs(extractIOCs(ReportText(reports[j])))}

\* a run has extracted indicators for its batch and is waiting on a
\* summary, while the store holds only the reports of an earlier run
C19_Witness ==
  /\ reports # <<>>
  /\ \E k \in Executing :
       /\ runs[k].pc = "ai"
       /\ \E i \in 1..Len(runs[k].newReports) :
            runs[k].newReports[i].iocs # NoIndicators

====
